---- MODULE Spec2Model ----
(***************************************************************************)
(* Model of the learning-card spaced-repetition core: the scheduler        *)
(* (lib/scheduler: processGrade), and the study API of api/client          *)
(* (startStudySession, gradeCard, endStudySession) and its card operations *)
(* (suspendCard, unsuspendCard, deleteCard, rescheduleCard, mergeCards)    *)
(* over the cards, review_history and study_sessions tables.               *)
(*                                                                         *)
(* Time is counted in whole minutes since an arbitrary epoch.  A Date is   *)
(* its minute count; toISOString() followed by storage in a TIMESTAMPTZ    *)
(* column keeps every millisecond, so a due_date is the same minute count. *)
(* ease_factor is held in hundredths (250 is the column default 2.5).      *)
(***************************************************************************)
EXTENDS Integers, Sequences, FiniteSets, TLC

VARIABLES
    now,                  \* the wall clock (new Date()), in minutes
    cards,                \* table cards: id -> row
    review_history,       \* table review_history: sequence of rows, in insertion order
    study_sessions,       \* table study_sessions: sequence of rows, index = id
    currentSessionId,     \* module-level slot of api/client
    sessionCardsStudied,  \* module-level counter of api/client
    sessionCardsCorrect,  \* module-level counter of api/client
    sessionTotalTimeMs,   \* module-level counter of api/client
    calls,                \* the activations of gradeCard so far, in call order: locals and position
    returned,             \* what the last startStudySession call returned
    view                  \* the state of the study view (StudyView's useState values)

vars == <<now, cards, review_history, study_sessions, currentSessionId,
          sessionCardsStudied, sessionCardsCorrect, sessionTotalTimeMs,
          calls, returned, view>>

----------------------------------------------------------------------------
(* Values *)

\* null / undefined where a row id is expected: ids start at 1 and the code tests
\* ids by truthiness (if (topicId), if (currentSessionId)).
NULL == 0

\* A null due_date (the column's value until the first grading).
NoDate == 0 - 1

CardStates == {"new", "learning", "review", "relearning"}

Min(a, b) == IF a < b THEN a ELSE b

Max(a, b) == IF a > b THEN a ELSE b

DefaultEase == 250

----------------------------------------------------------------------------
(* lib/scheduler *)

INTERVAL_STEPS == <<0, 1, 4, 10, 25, 60, 150, 365>>

LEARNING_STEPS_MINUTES == <<1, 10>>

\* JavaScript arrays are indexed from 0, sequences from 1.
At(arr, i) == arr[i + 1]

MinutesPerDay == 24 * 60

addMinutes(date, minutes) == date + minutes

addDays(date, days) == date + days * MinutesPerDay

\* learningAgain, had it kept the step the card was at.
learningAgain_keepsStep(card, t) ==
    LET steps == LEARNING_STEPS_MINUTES
    IN  [card_state |-> "learning", ease_factor |-> card.ease_factor,
         interval_days |-> 0, step_index |-> card.step_index,
         due_date |-> addMinutes(t, At(steps, 0))]

\* learningAgain, had it put the card off to the next day.
learningAgain_nextDay(card, t) ==
    [card_state |-> "learning", ease_factor |-> card.ease_factor,
     interval_days |-> 0, step_index |-> 0,
     due_date |-> addDays(t, 1)]

\* processLearning, grade 0.  Again: restart learning.
learningAgain(card, t) ==
    LET steps == LEARNING_STEPS_MINUTES
    IN  [card_state |-> "learning", ease_factor |-> card.ease_factor,
         interval_days |-> 0, step_index |-> 0,
         due_date |-> addMinutes(t, At(steps, 0))]

\* learningHard, had it always waited the first step's delay.
learningHard_firstDelay(card, t) ==
    LET steps == LEARNING_STEPS_MINUTES
        step  == card.step_index
        delay == At(steps, 0)
    IN  [card_state |-> "learning", ease_factor |-> card.ease_factor,
         interval_days |-> 0, step_index |-> step,
         due_date |-> addMinutes(t, delay)]

\* processLearning, grade 1.  Hard: repeat current learning step.
learningHard(card, t) ==
    LET steps == LEARNING_STEPS_MINUTES
        step  == card.step_index
        delay == At(steps, Min(step, Len(steps) - 1))
    IN  [card_state |-> "learning", ease_factor |-> card.ease_factor,
         interval_days |-> 0, step_index |-> step,
         due_date |-> addMinutes(t, delay)]

\* learningGood, had it waited the delay of the step the card leaves.
learningGood_oldDelay(card, t) ==
    LET steps    == LEARNING_STEPS_MINUTES
        step     == card.step_index
        nextStep == step + 1
    IN  IF nextStep < Len(steps) THEN
            [card_state |-> "learning", ease_factor |-> card.ease_factor,
             interval_days |-> 0, step_index |-> nextStep,
             due_date |-> addMinutes(t, At(steps, step))]
        ELSE
            LET interval == At(INTERVAL_STEPS, 1)
            IN  [card_state |-> "review", ease_factor |-> card.ease_factor,
                 interval_days |-> interval, step_index |-> 1,
                 due_date |-> addDays(t, interval)]

\* processLearning, grade 2.  Good: advance to next learning step, or graduate
\* into review progression at step 1 (Day 1).
learningGood(card, t) ==
    LET steps    == LEARNING_STEPS_MINUTES
        step     == card.step_index
        nextStep == step + 1
    IN  IF nextStep < Len(steps) THEN
            [card_state |-> "learning", ease_factor |-> card.ease_factor,
             interval_days |-> 0, step_index |-> nextStep,
             due_date |-> addMinutes(t, At(steps, nextStep))]
        ELSE
            LET interval == At(INTERVAL_STEPS, 1)
            IN  [card_state |-> "review", ease_factor |-> card.ease_factor,
                 interval_days |-> interval, step_index |-> 1,
                 due_date |-> addDays(t, interval)]

\* learningEasy, had it graduated to step 1 as Good does.
learningEasy_asGood(card, t) ==
    LET interval == At(INTERVAL_STEPS, 1)
    IN  [card_state |-> "review", ease_factor |-> card.ease_factor,
         interval_days |-> interval, step_index |-> 1,
         due_date |-> addDays(t, interval)]

\* processLearning, any other grade.  Easy: skip learning entirely, jump to step 2
\* (Day 4).
learningEasy(card, t) ==
    LET interval == At(INTERVAL_STEPS, 2)
    IN  [card_state |-> "review", ease_factor |-> card.ease_factor,
         interval_days |-> interval, step_index |-> 2,
         due_date |-> addDays(t, interval)]

processLearning(card, grade, t) ==
    IF grade = 0 THEN learningAgain(card, t)
    ELSE IF grade = 1 THEN learningHard(card, t)
    ELSE IF grade = 2 THEN learningGood(card, t)
    ELSE learningEasy(card, t)

\* reviewAgain, had it sent the card back to learning as processLearning does.
reviewAgain_toLearning(card, t) ==
    [card_state |-> "learning", ease_factor |-> card.ease_factor,
     interval_days |-> 0, step_index |-> 0,
     due_date |-> addMinutes(t, 10)]

\* processReview, grade 0.  Again: reset to step 0 (same-day review in 10 minutes).
reviewAgain(card, t) ==
    [card_state |-> "relearning", ease_factor |-> card.ease_factor,
     interval_days |-> 0, step_index |-> 0,
     due_date |-> addMinutes(t, 10)]

\* reviewHard, had it moved the card one step down.
reviewHard_stepsBack(card, t) ==
    LET step     == Max(card.step_index - 1, 0)
        maxStep  == Len(INTERVAL_STEPS) - 1
        interval == At(INTERVAL_STEPS, Min(step, maxStep))
    IN  [card_state |-> "review", ease_factor |-> card.ease_factor,
         interval_days |-> interval, step_index |-> step,
         due_date |-> addDays(t, Max(interval, 1))]

\* reviewHard, without the floor of one day.
reviewHard_noFloor(card, t) ==
    LET step     == card.step_index
        maxStep  == Len(INTERVAL_STEPS) - 1
        interval == At(INTERVAL_STEPS, Min(step, maxStep))
    IN  [card_state |-> "review", ease_factor |-> card.ease_factor,
         interval_days |-> interval, step_index |-> step,
         due_date |-> addDays(t, interval)]

\* processReview, grade 1.  Hard: stay at current step.
reviewHard(card, t) ==
    LET step     == card.step_index
        maxStep  == Len(INTERVAL_STEPS) - 1
        interval == At(INTERVAL_STEPS, Min(step, maxStep))
    IN  [card_state |-> "review", ease_factor |-> card.ease_factor,
         interval_days |-> interval, step_index |-> step,
         due_date |-> addDays(t, Max(interval, 1))]

\* reviewGood, had it not stopped at the top of the ladder.
reviewGood_pastTop(card, t) ==
    LET step     == card.step_index
        maxStep  == Len(INTERVAL_STEPS) - 1
        nextStep == step + 1
        interval == At(INTERVAL_STEPS, Min(nextStep, maxStep))
    IN  [card_state |-> "review", ease_factor |-> card.ease_factor,
         interval_days |-> interval, step_index |-> nextStep,
         due_date |-> addDays(t, interval)]

\* reviewGood, had it raised the ease of a card answered well.
reviewGood_raisesEase(card, t) ==
    LET step     == card.step_index
        maxStep  == Len(INTERVAL_STEPS) - 1
        nextStep == Min(step + 1, maxStep)
        interval == At(INTERVAL_STEPS, nextStep)
    IN  [card_state |-> "review", ease_factor |-> card.ease_factor + 15,
         interval_days |-> interval, step_index |-> nextStep,
         due_date |-> addDays(t, interval)]

\* processReview, grade 2.  Good: advance one step.
reviewGood(card, t) ==
    LET step     == card.step_index
        maxStep  == Len(INTERVAL_STEPS) - 1
        nextStep == Min(step + 1, maxStep)
        interval == At(INTERVAL_STEPS, nextStep)
    IN  [card_state |-> "review", ease_factor |-> card.ease_factor,
         interval_days |-> interval, step_index |-> nextStep,
         due_date |-> addDays(t, interval)]

\* reviewEasy, had it advanced one step only.
reviewEasy_oneStep(card, t) ==
    LET step     == card.step_index
        maxStep  == Len(INTERVAL_STEPS) - 1
        nextStep == Min(step + 1, maxStep)
        interval == At(INTERVAL_STEPS, nextStep)
    IN  [card_state |-> "review", ease_factor |-> card.ease_factor,
         interval_days |-> interval, step_index |-> nextStep,
         due_date |-> addDays(t, interval)]

\* processReview, any other grade.  Easy: skip ahead two steps.
reviewEasy(card, t) ==
    LET step     == card.step_index
        maxStep  == Len(INTERVAL_STEPS) - 1
        nextStep == Min(step + 2, maxStep)
        interval == At(INTERVAL_STEPS, nextStep)
    IN  [card_state |-> "review", ease_factor |-> card.ease_factor,
         interval_days |-> interval, step_index |-> nextStep,
         due_date |-> addDays(t, interval)]

processReview(card, grade, t) ==
    IF grade = 0 THEN reviewAgain(card, t)
    ELSE IF grade = 1 THEN reviewHard(card, t)
    ELSE IF grade = 2 THEN reviewGood(card, t)
    ELSE reviewEasy(card, t)

\* The value thrown for a card_state outside the four known ones.
UnknownCardState == [error |-> "Unknown card state"]

\* Whether a call of processGrade has thrown.
Throws(result) == "error" \in DOMAIN result

\* processGrade, had it taken a card_state it does not know for new.
processGrade_coercesToNew(card, grade, t) ==
    LET state == card.card_state
    IN  IF state = "review" \/ state = "relearning" THEN processReview(card, grade, t)
        ELSE processLearning(card, grade, t)

processGrade(card, grade, t) ==
    LET state == card.card_state
    IN  IF state = "new" \/ state = "learning" THEN processLearning(card, grade, t)
        ELSE IF state = "review" \/ state = "relearning" THEN processReview(card, grade, t)
        ELSE UnknownCardState

----------------------------------------------------------------------------
(* Bounds of the model *)

NumCards == 2

NumTopics == 3

\* the clock stops after MaxTicks ticks
MaxTicks == 1

\* gradeCard is called at most MaxGrades times
MaxGrades == 3

\* startStudySession is called at most MaxSessions times
MaxSessions == 2

\* the largest step_index a stored card is drawn with (the review ladder ends at 7)
MaxStepIn == 8

\* the largest numbers of learning-phase, review and new cards a stored pool is
\* drawn with
MaxLearnPool == 21

MaxReviewPool == 18

MaxNewPool == 50

----------------------------------------------------------------------------
(* Tables *)

CardIds == 1 .. NumCards

TopicIds == 1 .. NumTopics

\* topics.source_id: topics 1 and 2 belong to source 1, topic 3 to source 2, ...
SourceOf(topic) == (topic + 1) \div 2

SourceIds == {SourceOf(t) : t \in TopicIds}

\* A row of cards as the import step inserts it: every scheduling column takes its
\* default.
NewCardRow(topic) ==
    [topic_id |-> topic, card_state |-> "new", ease_factor |-> DefaultEase,
     interval_days |-> 0, step_index |-> 0, due_date |-> NoDate,
     review_count |-> 0, lapse_count |-> 0, is_suspended |-> FALSE]

\* A row of study_sessions as startStudySession inserts it.
NewSessionRow ==
    [status |-> "active", cards_studied |-> 0, cards_correct |-> 0,
     total_time_ms |-> 0]

\* The ids of set S in ascending order (the order the table is scanned in when a
\* query names none).
Ascending(S) ==
    IF S = {} THEN <<>>
    ELSE LET top == CHOOSE x \in S : \A y \in S : y <= x
         IN  SelectSeq([i \in 1 .. top |-> i], LAMBDA i : i \in S)

\* .limit(n): the first n rows of a result.
Limit(rows, n) == SubSeq(rows, 1, Min(n, Len(rows)))

----------------------------------------------------------------------------
(* api/client: startStudySession *)

limit == 20

\* The embedded resource topics(title, source_id, ...) of a card row.  The select
\* embeds topics without !inner, so .eq('topics.source_id', sourceId) filters the
\* embedded resource and not the card rows: a card of another source is still
\* returned, with topics null (hence the code's c.topics?.title || 'Unknown Topic').
\* EmbeddedSourceId is c.topics?.source_id (NULL for undefined).
EmbeddedSourceId(row, sourceId, topicId) ==
    IF topicId = NULL /\ sourceId # NULL /\ SourceOf(row.topic_id) # sourceId
    THEN NULL
    ELSE SourceOf(row.topic_id)

\* TierMatches, had it left out .eq('is_suspended', false).
TierMatches_anySuspension(states, dueFilter, topicId) ==
    {id \in DOMAIN cards :
        /\ cards[id].card_state \in states
        /\ dueFilter => (cards[id].due_date # NoDate /\ cards[id].due_date <= now)
        /\ topicId # NULL => cards[id].topic_id = topicId}

\* The card rows a tier query selects: card_state in states, not suspended, due
\* (when the tier has a due filter; a null due_date never compares as due), and of
\* the topic when a topic is given.
TierMatches(states, dueFilter, topicId) ==
    {id \in DOMAIN cards :
        /\ cards[id].card_state \in states
        /\ cards[id].is_suspended = FALSE
        /\ dueFilter => (cards[id].due_date # NoDate /\ cards[id].due_date <= now)
        /\ topicId # NULL => cards[id].topic_id = topicId}

\* One tier query: { data, error }, data being null on a storage error.
TierQuery(states, dueFilter, topicId, n, ok) ==
    IF ok
    THEN [error |-> FALSE,
          data |-> Limit(Ascending(TierMatches(states, dueFilter, topicId)), n)]
    ELSE [error |-> TRUE, data |-> <<>>]

\* Push, had it put the rows at the head of the queue (unshift).
Push_atHead(queue, res) == IF res.error THEN queue ELSE res.data \o queue

\* if (data) cards.push(...data): the error itself is not looked at.
Push(queue, res) == IF res.error THEN queue ELSE queue \o res.data

\* Tier 2 and 3 run only while the budget is not used up.
Remaining(queue) == limit - Len(queue)


\* flatCards: each row with its id and the source_id of its embedded topic.
FlatCard(id, sourceId, topicId) ==
        [id |-> id,
         topic_id |-> cards[id].topic_id,
         source_id |-> EmbeddedSourceId(cards[id], sourceId, topicId),
         card_state |-> cards[id].card_state,
         step_index |-> cards[id].step_index,
         due_date |-> cards[id].due_date,
         is_suspended |-> cards[id].is_suspended]

\* 1. Learning/relearning cards due now
LearningTier(queue, topicId, ok) ==
    Push(queue, TierQuery({"learning", "relearning"}, TRUE, topicId, limit, ok))

\* 2. Review cards due
ReviewTier(queue, topicId, ok) ==
    IF Remaining(queue) > 0
    THEN Push(queue, TierQuery({"review"}, TRUE, topicId, Remaining(queue), ok))
    ELSE queue

\* 3. New cards
NewTier(queue, topicId, ok) ==
    IF Remaining(queue) > 0
    THEN Push(queue, TierQuery({"new"}, FALSE, topicId, Remaining(queue), ok))
    ELSE queue

AssembleQueue(topicId, ok1, ok2, ok3) ==
    NewTier(ReviewTier(LearningTier(<<>>, topicId, ok1), topicId, ok2), topicId, ok3)

\* flatCards: the rows of the queue, flattened.
FlatCards(queue, sourceId, topicId) ==
    [i \in 1 .. Len(queue) |-> FlatCard(queue[i], sourceId, topicId)]

\* startStudySession, had it put the new cards it queues into learning.
startStudySession_startsNewCards(sourceId, topicId, okInsert, ok1, ok2, ok3) ==
    /\ Len(study_sessions) < MaxSessions
    /\ IF ~okInsert
       THEN UNCHANGED <<study_sessions, currentSessionId, sessionCardsStudied,
                        sessionCardsCorrect, sessionTotalTimeMs, cards,
                        view>>
            /\ returned' = [error |-> TRUE, session_id |-> NULL, sourceId |-> sourceId,
                            topicId |-> topicId, at |-> now,
                            cards |-> <<>>, total_available |-> 0]
       ELSE LET id     == Len(study_sessions) + 1
                queue  == AssembleQueue(topicId, ok1, ok2, ok3)
                flat   == FlatCards(queue, sourceId, topicId)
                queued == {queue[i] : i \in DOMAIN queue}
            IN  /\ study_sessions' = Append(study_sessions, NewSessionRow)
                /\ currentSessionId' = id
                /\ sessionCardsStudied' = 0
                /\ sessionCardsCorrect' = 0
                /\ sessionTotalTimeMs' = 0
                /\ cards' = [c \in DOMAIN cards |->
                                IF c \in queued /\ cards[c].card_state = "new"
                                THEN [cards[c] EXCEPT !.card_state = "learning",
                                                      !.due_date = now]
                                ELSE cards[c]]
                /\ returned' = [error |-> FALSE, session_id |-> id, sourceId |-> sourceId,
                                topicId |-> topicId, at |-> now,
                                cards |-> flat, total_available |-> Len(flat)]
    /\ UNCHANGED <<now, review_history, calls, view>>

\* startStudySession(sourceId, topicId).  okInsert, ok1, ok2, ok3: whether the
\* session insert and each of the three tier queries succeed in storage.
startStudySession(sourceId, topicId, okInsert, ok1, ok2, ok3) ==
    /\ Len(study_sessions) < MaxSessions
    /\ IF ~okInsert
       THEN \* throw new Error(sessErr.message)
            UNCHANGED <<study_sessions, currentSessionId, sessionCardsStudied,
                        sessionCardsCorrect, sessionTotalTimeMs, view>>
            /\ returned' = [error |-> TRUE, session_id |-> NULL, sourceId |-> sourceId,
                            topicId |-> topicId, at |-> now,
                            cards |-> <<>>, total_available |-> 0]
       ELSE LET id   == Len(study_sessions) + 1
                flat == FlatCards(AssembleQueue(topicId, ok1, ok2, ok3), sourceId, topicId)
            IN  /\ study_sessions' = Append(study_sessions, NewSessionRow)
                /\ currentSessionId' = id
                /\ sessionCardsStudied' = 0
                /\ sessionCardsCorrect' = 0
                /\ sessionTotalTimeMs' = 0
                /\ returned' = [error |-> FALSE, session_id |-> id, sourceId |-> sourceId,
                                topicId |-> topicId, at |-> now,
                                cards |-> flat, total_available |-> Len(flat)]
    /\ UNCHANGED <<now, cards, review_history, calls, view>>

----------------------------------------------------------------------------
(* api/client: gradeCard.  Each await is a point where other work of the page may
   run; one action is the storage request being served followed by the code up
   to the next await. *)

NoTime == 0 - 1

NoCard == [card_state |-> "none", ease_factor |-> 0, step_index |-> 0, interval_days |-> 0]

NoResult ==
    [card_state |-> "none", ease_factor |-> 0, interval_days |-> 0, step_index |-> 0,
     due_date |-> NoDate]

NoStats == [id |-> NULL, cards_studied |-> 0, cards_correct |-> 0, total_time_ms |-> 0]

\* A call is in flight from its first await until it returns or throws.
InFlight(call) == call.pc \notin {"done", "failed", "returned"}

\* No gradeCard call is between its first and its last await.
NoCallInFlight == \A k \in DOMAIN calls : ~InFlight(calls[k])

SetCall(k, fields) == [calls EXCEPT ![k] = fields @@ calls[k]]

\* What a call remembers for the properties, none of it a local of the code: the
\* tables and the module counters as they are when the call is made (cards,
\* history, sessions, studied, correct, total) and, from the select on, the
\* counters of the row as they were read (review_count, lapse_count).
Before(review_count, lapse_count) ==
    [review_count |-> review_count, lapse_count |-> lapse_count,
     history |-> Len(review_history), cards |-> cards, sessions |-> study_sessions,
     studied |-> sessionCardsStudied, correct |-> sessionCardsCorrect,
     total |-> sessionTotalTimeMs]

\* gradeCard(cardId, grade, timeTakenMs) is called: the select is sent.
\* overlap: whether the call may start while another one is in flight.
\* The fields before, faults (the requests of the call that storage has failed)
\* and racing (the calls that had read the card and not yet written it when this
\* call read it) are not locals of the code: they are kept for the properties.
gradeCardCall(cardId, grade, timeTakenMs, overlap) ==
    /\ overlap \/ NoCallInFlight
    /\ calls' = Append(calls,
          [pc |-> "select", card_id |-> cardId, grade |-> grade,
           timeTakenMs |-> timeTakenMs, card |-> NoCard, result |-> NoResult,
           at |-> NoDate, session_id |-> NULL, stats |-> NoStats,
           before |-> Before(0, 0), faults |-> {}, racing |-> {},
           error |-> "none"])
    /\ UNCHANGED <<now, cards, review_history, study_sessions, currentSessionId,
                   sessionCardsStudied, sessionCardsCorrect, sessionTotalTimeMs,
                   returned, view>>

\* The requests of call k that storage has failed, with one more.
Faulted(k, ok, request) ==
    IF ok THEN calls[k].faults ELSE calls[k].faults \cup {request}

\* The columns the select names, of a stored row.
SelectedColumns(row) ==
    [card_state |-> row.card_state, ease_factor |-> row.ease_factor,
     step_index |-> row.step_index, interval_days |-> row.interval_days]

\* The calls on card id that have read the card and not yet written it.
Racing(id) ==
    {j \in DOMAIN calls : calls[j].pc = "update" /\ calls[j].card_id = id}

\* What the select and processGrade leave in the call's locals: the call has
\* thrown when storage fails the select or finds no row, or processGrade throws.
Selected(k, ok, id, card, result) ==
    IF ~ok \/ id \notin DOMAIN cards
    THEN SetCall(k, [pc |-> "failed", error |-> "Card not found",
                     faults |-> Faulted(k, ok, "select")])
    ELSE IF Throws(result)
    THEN SetCall(k, [pc |-> "failed", card |-> card, error |-> result.error])
    ELSE SetCall(k, [pc |-> "update", card |-> card, at |-> now, result |-> result,
                     racing |-> Racing(id),
                     before |-> [review_count |-> cards[id].review_count,
                                 lapse_count |-> cards[id].lapse_count]
                                @@ calls[k].before])

\* gradeCardSelect, had it graded a card it does not find as a new card
\* (.maybeSingle() and a default row).
gradeCardSelect_defaultsCard(k, ok) ==
    /\ k \in DOMAIN calls
    /\ calls[k].pc = "select"
    /\ LET id   == calls[k].card_id
           card == IF id \in DOMAIN cards THEN SelectedColumns(cards[id])
                   ELSE SelectedColumns(NewCardRow(NULL))
       IN  calls' =
             IF ~ok
             THEN SetCall(k, [pc |-> "failed", error |-> "Card not found",
                              faults |-> Faulted(k, ok, "select")])
             ELSE SetCall(k, [pc |-> "update", card |-> card, at |-> now,
                              result |-> processGrade(card, calls[k].grade, now)])
    /\ UNCHANGED <<now, cards, review_history, study_sessions, currentSessionId,
                   sessionCardsStudied, sessionCardsCorrect, sessionTotalTimeMs,
                   returned, view>>

\* select('card_state, ease_factor, step_index, interval_days').single(), then
\* processGrade(card, grade) and the update request.
gradeCardSelect(k, ok) ==
    /\ k \in DOMAIN calls
    /\ calls[k].pc = "select"
    /\ LET id   == calls[k].card_id
           card == IF id \in DOMAIN cards THEN SelectedColumns(cards[id]) ELSE NoCard
       IN  calls' = Selected(k, ok, id, card, processGrade(card, calls[k].grade, now))
    /\ UNCHANGED <<now, cards, review_history, study_sessions, currentSessionId,
                   sessionCardsStudied, sessionCardsCorrect, sessionTotalTimeMs,
                   returned, view>>

\* IsLapse, had it counted Again on a relearning card too.
IsLapse_inRelearning(call) ==
    call.grade = 0 /\ call.card.card_state \in {"review", "relearning"}

\* Whether the call increments lapse_count: if (grade === 0 && card.card_state === 'review').
IsLapse(call) == call.grade = 0 /\ call.card.card_state = "review"

\* gradeCardUpdate, had it not looked at updateErr (as the later requests do not
\* look at theirs).
gradeCardUpdate_ignoresError(k, ok) ==
    /\ k \in DOMAIN calls
    /\ calls[k].pc = "update"
    /\ LET id     == calls[k].card_id
           result == calls[k].result
       IN  /\ cards' = IF ok /\ id \in DOMAIN cards
                        THEN [cards EXCEPT ![id] =
                                [card_state |-> result.card_state,
                                 ease_factor |-> result.ease_factor,
                                 interval_days |-> result.interval_days,
                                 step_index |-> result.step_index,
                                 due_date |-> result.due_date] @@ @]
                        ELSE cards
           /\ calls' = SetCall(k, [pc |-> IF IsLapse(calls[k]) THEN "lapse" ELSE "review",
                                    faults |-> Faulted(k, ok, "update")])
    /\ UNCHANGED <<now, review_history, study_sessions, currentSessionId,
                   sessionCardsStudied, sessionCardsCorrect, sessionTotalTimeMs,
                   returned, view>>

\* gradeCardUpdate, had it left due_date out of the columns it writes.
gradeCardUpdate_withoutDueDate(k, ok) ==
    /\ k \in DOMAIN calls
    /\ calls[k].pc = "update"
    /\ LET id     == calls[k].card_id
           result == calls[k].result
       IN  IF ~ok
           THEN /\ calls' = SetCall(k, [pc |-> "failed", error |-> "updateErr",
                                         faults |-> Faulted(k, ok, "update")])
                /\ UNCHANGED cards
           ELSE /\ cards' = IF id \in DOMAIN cards
                            THEN [cards EXCEPT ![id] =
                                    [card_state |-> result.card_state,
                                     ease_factor |-> result.ease_factor,
                                     interval_days |-> result.interval_days,
                                     step_index |-> result.step_index] @@ @]
                            ELSE cards
                /\ calls' = SetCall(k, [pc |-> IF IsLapse(calls[k]) THEN "lapse" ELSE "review"])
    /\ UNCHANGED <<now, review_history, study_sessions, currentSessionId,
                   sessionCardsStudied, sessionCardsCorrect, sessionTotalTimeMs,
                   returned, view>>

\* from('cards').update({...result}).eq('id', cardId); throws on updateErr.  A
\* request that storage fails leaves the row as it was.
gradeCardUpdate(k, ok) ==
    /\ k \in DOMAIN calls
    /\ calls[k].pc = "update"
    /\ LET id     == calls[k].card_id
           result == calls[k].result
       IN  IF ~ok
           THEN /\ calls' = SetCall(k, [pc |-> "failed", error |-> "updateErr",
                                         faults |-> Faulted(k, ok, "update")])
                /\ UNCHANGED cards
           ELSE /\ cards' = IF id \in DOMAIN cards
                            THEN [cards EXCEPT ![id] =
                                    [card_state |-> result.card_state,
                                     ease_factor |-> result.ease_factor,
                                     interval_days |-> result.interval_days,
                                     step_index |-> result.step_index,
                                     due_date |-> result.due_date] @@ @]
                            ELSE cards
                /\ calls' = SetCall(k, [pc |-> IF IsLapse(calls[k]) THEN "lapse" ELSE "review"])
    /\ UNCHANGED <<now, review_history, study_sessions, currentSessionId,
                   sessionCardsStudied, sessionCardsCorrect, sessionTotalTimeMs,
                   returned, view>>

\* rpc('increment_card_lapse'); its outcome is not looked at.
gradeCardLapse(k, ok) ==
    /\ k \in DOMAIN calls
    /\ calls[k].pc = "lapse"
    /\ LET id == calls[k].card_id
       IN  cards' = IF ok /\ id \in DOMAIN cards
                    THEN [cards EXCEPT ![id].lapse_count = @ + 1]
                    ELSE cards
    /\ calls' = SetCall(k, [pc |-> "review", faults |-> Faulted(k, ok, "lapse")])
    /\ UNCHANGED <<now, review_history, study_sessions, currentSessionId,
                   sessionCardsStudied, sessionCardsCorrect, sessionTotalTimeMs,
                   returned, view>>

\* rpc('increment_card_review'); its outcome is not looked at.  The insert into
\* review_history is then built, with session_id: currentSessionId.
gradeCardReview(k, ok) ==
    /\ k \in DOMAIN calls
    /\ calls[k].pc = "review"
    /\ LET id == calls[k].card_id
       IN  cards' = IF ok /\ id \in DOMAIN cards
                    THEN [cards EXCEPT ![id].review_count = @ + 1]
                    ELSE cards
    /\ calls' = SetCall(k, [pc |-> "insert", session_id |-> currentSessionId,
                             faults |-> Faulted(k, ok, "review")])
    /\ UNCHANGED <<now, review_history, study_sessions, currentSessionId,
                   sessionCardsStudied, sessionCardsCorrect, sessionTotalTimeMs,
                   returned, view>>

\* HistoryRow, had it taken the interval before from the schedule computed.
HistoryRow_intervalAfter(call) ==
    [card_id |-> call.card_id, session_id |-> call.session_id, grade |-> call.grade,
     previous_interval |-> call.result.interval_days,
     new_interval |-> call.result.interval_days,
     previous_ease |-> call.card.ease_factor,
     new_ease |-> call.result.ease_factor,
     time_taken_ms |-> IF call.timeTakenMs # 0 THEN call.timeTakenMs ELSE NoTime]

\* The review_history row of a call (time_taken_ms: timeTakenMs || null).  The
\* columns id and reviewed_at, which storage fills in, are left out.
HistoryRow(call) ==
    [card_id |-> call.card_id, session_id |-> call.session_id, grade |-> call.grade,
     previous_interval |-> call.card.interval_days,
     new_interval |-> call.result.interval_days,
     previous_ease |-> call.card.ease_factor,
     new_ease |-> call.result.ease_factor,
     time_taken_ms |-> IF call.timeTakenMs # 0 THEN call.timeTakenMs ELSE NoTime]

\* The table's constraints on a new row: card_id references cards, grade BETWEEN 0 AND 3.
HistoryRowAccepted(row) == row.card_id \in DOMAIN cards /\ row.grade \in 0 .. 3

\* from('review_history').insert(...); its outcome is not looked at.  Then the
\* module-level counters are advanced and, if a session is current, the update of
\* its row is built from them.
gradeCardInsert(k, ok) ==
    /\ k \in DOMAIN calls
    /\ calls[k].pc = "insert"
    /\ LET row     == HistoryRow(calls[k])
           studied == sessionCardsStudied + 1
           correct == IF calls[k].grade >= 2 THEN sessionCardsCorrect + 1
                      ELSE sessionCardsCorrect
           total   == IF calls[k].timeTakenMs # 0
                      THEN sessionTotalTimeMs + calls[k].timeTakenMs
                      ELSE sessionTotalTimeMs
       IN  /\ review_history' = IF ok /\ HistoryRowAccepted(row)
                                THEN Append(review_history, row)
                                ELSE review_history
           /\ sessionCardsStudied' = studied
           /\ sessionCardsCorrect' = correct
           /\ sessionTotalTimeMs' = total
           /\ calls' = IF currentSessionId # NULL
                       THEN SetCall(k, [pc |-> "session",
                                        faults |-> Faulted(k, ok, "insert"),
                                        stats |-> [id |-> currentSessionId,
                                                   cards_studied |-> studied,
                                                   cards_correct |-> correct,
                                                   total_time_ms |-> total]])
                       ELSE SetCall(k, [pc |-> "done",
                                        faults |-> Faulted(k, ok, "insert")])
    /\ UNCHANGED <<now, cards, study_sessions, currentSessionId, returned, view>>

\* from('study_sessions').update({counters}).eq('id', currentSessionId); its outcome
\* is not looked at.  Then the new schedule is returned.
gradeCardSession(k, ok) ==
    /\ k \in DOMAIN calls
    /\ calls[k].pc = "session"
    /\ LET stats == calls[k].stats
       IN  study_sessions' =
               IF ok /\ stats.id \in DOMAIN study_sessions
               THEN [study_sessions EXCEPT ![stats.id] =
                        [cards_studied |-> stats.cards_studied,
                         cards_correct |-> stats.cards_correct,
                         total_time_ms |-> stats.total_time_ms] @@ @]
               ELSE study_sessions
    /\ calls' = SetCall(k, [pc |-> "done", faults |-> Faulted(k, ok, "session")])
    /\ UNCHANGED <<now, cards, review_history, currentSessionId,
                   sessionCardsStudied, sessionCardsCorrect, sessionTotalTimeMs,
                   returned, view>>

\* The value gradeCard returns.
GradeResult(call) ==
    [card_id |-> call.card_id,
     new_state |-> call.result.card_state,
     new_interval |-> call.result.interval_days,
     new_ease |-> call.result.ease_factor,
     due_date |-> call.result.due_date]

\* The caller has taken the outcome of call k (the value returned or the error
\* thrown): the activation is gone, and only its place in the call order is kept.
ReturnedCall ==
    [pc |-> "returned", card_id |-> NULL, grade |-> 0, timeTakenMs |-> 0,
     card |-> NoCard, result |-> NoResult, at |-> NoDate, session_id |-> NULL,
     stats |-> NoStats,
     before |-> [review_count |-> 0, lapse_count |-> 0, history |-> 0,
                 cards |-> <<>>, sessions |-> <<>>, studied |-> 0, correct |-> 0,
                 total |-> 0],
     faults |-> {}, racing |-> {},
     error |-> "none"]

gradeCardReturn(k) ==
    /\ k \in DOMAIN calls
    /\ calls[k].pc \in {"done", "failed"}
    /\ calls' = [calls EXCEPT ![k] = ReturnedCall]
    /\ UNCHANGED <<now, cards, review_history, study_sessions, currentSessionId,
                   sessionCardsStudied, sessionCardsCorrect, sessionTotalTimeMs,
                   returned, view>>

----------------------------------------------------------------------------
(* api/client: endStudySession *)

endStudySession_keepsSlot(ok) ==
    /\ currentSessionId # NULL
    /\ study_sessions' =
           IF ok /\ currentSessionId \in DOMAIN study_sessions
           THEN [study_sessions EXCEPT ![currentSessionId].status = "completed"]
           ELSE study_sessions
    /\ UNCHANGED <<now, cards, review_history, currentSessionId, sessionCardsStudied,
                   sessionCardsCorrect, sessionTotalTimeMs, calls, returned>>

\* The status update's outcome is not looked at; the slot is emptied either way.
\* The view is left to the caller, which changes it in the step of the call.
endStudySession(ok) ==
    /\ currentSessionId # NULL
    /\ study_sessions' =
           IF ok /\ currentSessionId \in DOMAIN study_sessions
           THEN [study_sessions EXCEPT ![currentSessionId].status = "completed"]
           ELSE study_sessions
    /\ currentSessionId' = NULL
    /\ UNCHANGED <<now, cards, review_history, sessionCardsStudied,
                   sessionCardsCorrect, sessionTotalTimeMs, calls, returned>>

----------------------------------------------------------------------------
(* api/client: the card operations of the library view *)

\* DELETE FROM cards WHERE id in ids: review_history.card_id REFERENCES cards(id)
\* ON DELETE CASCADE, so the rows of review_history of a deleted card go with it.
DeleteCards(ids) ==
    /\ cards' = [id \in DOMAIN cards \ ids |-> cards[id]]
    /\ review_history' = SelectSeq(review_history, LAMBDA row : row.card_id \notin ids)

\* from('cards').update(updates).eq('id', cardId): no row matched is not an error.
UpdateCard(cardId, updates, ok) ==
    cards' = IF ok /\ cardId \in DOMAIN cards
             THEN [cards EXCEPT ![cardId] = updates @@ @]
             ELSE cards

suspendCard(cardId, ok) ==
    /\ UpdateCard(cardId, [is_suspended |-> TRUE], ok)
    /\ UNCHANGED <<now, review_history, study_sessions, currentSessionId,
                   sessionCardsStudied, sessionCardsCorrect, sessionTotalTimeMs,
                   calls, returned, view>>

unsuspendCard(cardId, ok) ==
    /\ UpdateCard(cardId, [is_suspended |-> FALSE], ok)
    /\ UNCHANGED <<now, review_history, study_sessions, currentSessionId,
                   sessionCardsStudied, sessionCardsCorrect, sessionTotalTimeMs,
                   calls, returned, view>>

deleteCard(cardId, ok) ==
    /\ IF ok THEN DeleteCards({cardId}) ELSE UNCHANGED <<cards, review_history, view>>
    /\ UNCHANGED <<now, study_sessions, currentSessionId, sessionCardsStudied,
                   sessionCardsCorrect, sessionTotalTimeMs, calls, returned,
                   view>>

\* rescheduleCard(cardId, intervalDays), as the library view calls it (no dueDate):
\* due_date is now plus intervalDays days and interval_days is intervalDays; the
\* other columns are not named in the update.
rescheduleCard(cardId, intervalDays, ok) ==
    /\ UpdateCard(cardId, [due_date |-> addDays(now, intervalDays),
                           interval_days |-> intervalDays], ok)
    /\ UNCHANGED <<now, review_history, study_sessions, currentSessionId,
                   sessionCardsStudied, sessionCardsCorrect, sessionTotalTimeMs,
                   calls, returned, view>>

\* mergeCards(cardIds): the first card is kept and every other one is deleted, one
\* request each; failed: the cards whose delete storage fails, which the code
\* does not notice.  The update of the texts of the first card touches no column
\* of the model.
mergeCards(cardIds, failed) ==
    /\ Len(cardIds) >= 2
    /\ LET sourceIds == {cardIds[i] : i \in 2 .. Len(cardIds)}
       IN  DeleteCards(sourceIds \ failed)
    /\ UNCHANGED <<now, study_sessions, currentSessionId, sessionCardsStudied,
                   sessionCardsCorrect, sessionTotalTimeMs, calls, returned,
                   view>>

----------------------------------------------------------------------------
(* views/StudyView: the state of the component *)

\* The useState values of the view that matter here, as the component mounts
\* (cards, currentIndex, sessionActive, sessionComplete, picking, cardsStudied,
\* cardsCorrect), and four fields that are not state of the component:
\* session (the id of the session whose start the view has taken), handled (the
\* gradeCard calls whose outcome handleGrade has taken), timers (the
\* setTimeout callbacks of handleGrade not run yet, each with the currentIndex
\* and the cards.length its closure holds) and ended (how often the view has
\* called endStudySession since it took the session).
NoView ==
    [cards |-> <<>>, currentIndex |-> 0, sessionActive |-> FALSE,
     sessionComplete |-> FALSE, picking |-> TRUE, cardsStudied |-> 0,
     cardsCorrect |-> 0, session |-> NULL, handled |-> {}, timers |-> <<>>,
     ended |-> 0]

\* What is on the screen: the returns of the component, in their order.
Screen ==
    IF view.picking THEN "picker"
    ELSE IF view.sessionComplete THEN "complete"
    ELSE IF ~view.sessionActive \/ view.cards = <<>> THEN "empty"
    ELSE IF view.currentIndex >= Len(view.cards) THEN "nothing"
    ELSE "study"

\* cards[currentIndex] (currentIndex counts from 0).
CurrentCard == view.cards[view.currentIndex + 1]

\* The index of the card with the given id in the queue of the view, from 0: the
\* currentIndex the closure of the handleGrade that graded it holds (the ids of a
\* queue are distinct).
IndexOf(id) == (CHOOSE i \in DOMAIN view.cards : view.cards[i].id = id) - 1

\* The labels of the steps of the review ladder.
INTERVAL_LABELS ==
    <<"Day 0", "Day 1", "Day 4", "Day 10", "Day 25", "Day 60", "Day 150", "Day 365">>

\* intervals: what each grade button says the grade will do, from the step_index
\* of the card shown alone.  A text is held as its label and what is put after
\* it.
intervals(step) ==
    LET top == Len(INTERVAL_LABELS) - 1
    IN  [again |-> [label |-> "Day 0", rest |-> " (10m)"],
         hard  |-> [label |-> At(INTERVAL_LABELS, Min(step, top)), rest |-> " (repeat)"],
         good  |-> [label |-> At(INTERVAL_LABELS, Min(step + 1, top)), rest |-> ""],
         easy  |-> [label |-> At(INTERVAL_LABELS, Min(step + 2, top)), rest |-> ""]]

\* startSession, after await startStudySession(...): the queue is taken.  (When
\* the call throws, only the error text is set.)
startSessionTaken ==
    /\ returned.session_id # NULL
    /\ returned.session_id # view.session
    /\ view' = [view EXCEPT !.cards = returned.cards, !.currentIndex = 0,
                            !.sessionActive = TRUE, !.sessionComplete = FALSE,
                            !.picking = FALSE, !.cardsStudied = 0,
                            !.cardsCorrect = 0, !.session = returned.session_id,
                            !.ended = 0]
    /\ UNCHANGED <<now, cards, review_history, study_sessions, currentSessionId,
                   sessionCardsStudied, sessionCardsCorrect, sessionTotalTimeMs,
                   calls, returned>>

\* setPicking(true): Study More on the complete screen, Back to Subject Picker on
\* the empty one.
backToPicker ==
    /\ Screen \in {"complete", "empty"}
    /\ view' = [view EXCEPT !.picking = TRUE]
    /\ UNCHANGED <<now, cards, review_history, study_sessions, currentSessionId,
                   sessionCardsStudied, sessionCardsCorrect, sessionTotalTimeMs,
                   calls, returned>>

\* handleGrade(grade), up to await gradeCard(...): a grade button or a key 1 to 4
\* while a card is shown.  Nothing is disabled while a call is pending.
handleGrade(grade, timeTaken) ==
    /\ Screen = "study"
    /\ gradeCardCall(CurrentCard.id, grade, timeTaken, TRUE)

\* handleGrade, after the await: the counters of the view are advanced and the
\* advance is put off by 800 ms; when the call has thrown, only the error text
\* is set.
handleGradeTaken(k) ==
    /\ k \in DOMAIN calls
    /\ k \notin view.handled
    /\ calls[k].pc \in {"done", "failed"}
    /\ view' =
         IF calls[k].pc = "failed"
         THEN [view EXCEPT !.handled = @ \cup {k}]
         ELSE [view EXCEPT
                 !.handled = @ \cup {k},
                 !.cardsStudied = @ + 1,
                 !.cardsCorrect = IF calls[k].grade >= 2 THEN @ + 1 ELSE @,
                 !.timers = Append(@, [call |-> k,
                                       currentIndex |-> IndexOf(calls[k].card_id),
                                       length |-> Len(view.cards)])]
    /\ UNCHANGED <<now, cards, review_history, study_sessions, currentSessionId,
                   sessionCardsStudied, sessionCardsCorrect, sessionTotalTimeMs,
                   calls, returned>>

\* The callback of setTimeout(..., 800) that was set first runs: the view moves to
\* the next card (setCurrentIndex(prev => prev + 1)) when the closure's
\* currentIndex + 1 < cards.length, and otherwise shows the session as complete
\* and calls endStudySession().
advance ==
    /\ view.timers # <<>>
    /\ LET timer == Head(view.timers)
       IN  IF timer.currentIndex + 1 < timer.length
           THEN /\ view' = [view EXCEPT !.timers = Tail(@), !.currentIndex = @ + 1]
                /\ UNCHANGED <<now, cards, review_history, study_sessions,
                               currentSessionId, sessionCardsStudied,
                               sessionCardsCorrect, sessionTotalTimeMs, calls,
                               returned>>
           ELSE /\ view' = [view EXCEPT !.timers = Tail(@),
                                        !.sessionComplete = TRUE,
                                        !.sessionActive = FALSE,
                                        !.ended = @ + 1]
                /\ IF currentSessionId # NULL
                   THEN endStudySession(TRUE)
                   ELSE UNCHANGED <<now, cards, review_history, study_sessions,
                                    currentSessionId, sessionCardsStudied,
                                    sessionCardsCorrect, sessionTotalTimeMs,
                                    calls, returned>>

----------------------------------------------------------------------------
(* The clock *)

TickMinutes == MinutesPerDay

Tick ==
    /\ now + TickMinutes <= MaxTicks * TickMinutes
    /\ now' = now + TickMinutes
    /\ UNCHANGED <<cards, review_history, study_sessions, currentSessionId,
                   sessionCardsStudied, sessionCardsCorrect, sessionTotalTimeMs,
                   calls, returned, view>>

----------------------------------------------------------------------------
(* The learner's use of the page, one request at a time and storage answering
   every request *)

Grades == 0 .. 3

TimesTaken == {1500}

NothingReturned ==
    [error |-> FALSE, session_id |-> NULL, sourceId |-> NULL, topicId |-> NULL,
     at |-> 0, cards |-> <<>>, total_available |-> 0]

\* topic_id of the cards the import step created
TopicOfCard(id) == ((id - 1) % NumTopics) + 1

Init ==
    /\ now = 0
    /\ cards = [id \in CardIds |-> NewCardRow(TopicOfCard(id))]
    /\ review_history = <<>>
    /\ study_sessions = <<>>
    /\ currentSessionId = NULL
    /\ sessionCardsStudied = 0
    /\ sessionCardsCorrect = 0
    /\ sessionTotalTimeMs = 0
    /\ calls = <<>>
    /\ returned = NothingReturned
    /\ view = NoView

\* The scopes the study view starts a session with: none, a source, or a topic of
\* a source.
Scopes ==
    {<<NULL, NULL>>} \cup {<<s, NULL>> : s \in SourceIds}
        \cup {<<SourceOf(t), t>> : t \in TopicIds}

\* Every call made so far has ended and its outcome has been taken.
Quiet == \A k \in DOMAIN calls : calls[k].pc = "returned"

\* A tick is a day and a request takes far less: the clock ticks between requests.
Pass == Quiet /\ Tick

StartSession ==
    /\ Quiet
    /\ startStudySession(NULL, NULL, TRUE, TRUE, TRUE, TRUE)

CallGrade ==
    /\ Quiet
    /\ Len(calls) < MaxGrades
    /\ \E id \in CardIds, g \in Grades, t \in TimesTaken : gradeCardCall(id, g, t, FALSE)

StepGrade ==
    \E k \in DOMAIN calls :
        \/ gradeCardSelect(k, TRUE)
        \/ gradeCardUpdate(k, TRUE)
        \/ gradeCardLapse(k, TRUE)
        \/ gradeCardReview(k, TRUE)
        \/ gradeCardInsert(k, TRUE)
        \/ gradeCardSession(k, TRUE)
        \/ gradeCardReturn(k)

EndSession == Quiet /\ endStudySession(TRUE) /\ UNCHANGED view

Next ==
    \/ Pass
    \/ StartSession
    \/ CallGrade
    \/ StepGrade
    \/ EndSession

Spec == Init /\ [][Next]_vars

----------------------------------------------------------------------------
(* The scheduler on any stored card: one card whose scheduling columns are drawn
   from every card_state and every step_index up to MaxStepIn, graded again and
   again through gradeCard.  No session is started, and the activations are kept
   so that consecutive grades can be compared. *)

\* A stored row in the given state at the given step.
SchedRow(state, step) ==
    [topic_id |-> 1, card_state |-> state, ease_factor |-> DefaultEase,
     interval_days |-> IF state = "review"
                       THEN At(INTERVAL_STEPS, Min(step, Len(INTERVAL_STEPS) - 1))
                       ELSE 0,
     step_index |-> step,
     due_date |-> IF state = "new" THEN NoDate ELSE 0,
     review_count |-> IF state = "new" THEN 0 ELSE 1,
     lapse_count |-> IF state = "relearning" THEN 1 ELSE 0,
     is_suspended |-> FALSE]

InitSched ==
    /\ now = 0
    /\ cards \in {[id \in {1} |-> SchedRow(state, step)] :
                    state \in CardStates, step \in 0 .. MaxStepIn}
    /\ review_history = <<>>
    /\ study_sessions = <<>>
    /\ currentSessionId = NULL
    /\ sessionCardsStudied = 0
    /\ sessionCardsCorrect = 0
    /\ sessionTotalTimeMs = 0
    /\ calls = <<>>
    /\ returned = NothingReturned
    /\ view = NoView

PassSched == NoCallInFlight /\ Tick

CallGradeSched ==
    /\ Len(calls) < MaxGrades
    /\ \E id \in DOMAIN cards, g \in Grades, t \in TimesTaken : gradeCardCall(id, g, t, FALSE)

StepGradeSched ==
    \E k \in DOMAIN calls :
        \/ gradeCardSelect(k, TRUE)
        \/ gradeCardUpdate(k, TRUE)
        \/ gradeCardLapse(k, TRUE)
        \/ gradeCardReview(k, TRUE)
        \/ gradeCardInsert(k, TRUE)

NextSched ==
    \/ PassSched
    \/ CallGradeSched
    \/ StepGradeSched

SpecSched == InitSched /\ [][NextSched]_vars

----------------------------------------------------------------------------
(* Queue assembly on any stored pool: nl cards in learning or relearning, then nr
   in review, then nn new ones, as earlier study and imports may have left
   them; sessions are started with every scope.  In a mixed pool every fourth
   card is suspended and every third learning or review card is not due yet. *)

LearnPools == {0, 3, MaxLearnPool}

ReviewPools == {0, 5, MaxReviewPool}

NewPools == {0, MaxNewPool}

PoolRow(id, nl, nr, mixed) ==
    LET state  == IF id <= nl THEN (IF id % 2 = 1 THEN "learning" ELSE "relearning")
                  ELSE IF id <= nl + nr THEN "review"
                  ELSE "new"
        step   == IF state = "learning" THEN id % 2
                  ELSE IF state = "review" THEN 1 + (id % 7)
                  ELSE 0
        future == mixed /\ id % 3 = 0
    IN  [topic_id |-> ((id - 1) % NumTopics) + 1,
         card_state |-> state,
         ease_factor |-> DefaultEase,
         interval_days |-> IF state = "review" THEN At(INTERVAL_STEPS, step) ELSE 0,
         step_index |-> step,
         due_date |-> IF state = "new" THEN NoDate
                      ELSE IF ~future THEN 0
                      ELSE IF state = "review" THEN addDays(0, 2)
                      ELSE addMinutes(0, 10),
         review_count |-> IF state = "new" THEN 0 ELSE 1 + step,
         lapse_count |-> IF state = "relearning" THEN 1 ELSE 0,
         is_suspended |-> mixed /\ id % 4 = 0]

InitQueue ==
    /\ now = 0
    /\ \E nl \in LearnPools, nr \in ReviewPools, nn \in NewPools, mixed \in BOOLEAN :
          cards = [id \in 1 .. (nl + nr + nn) |-> PoolRow(id, nl, nr, mixed)]
    /\ review_history = <<>>
    /\ study_sessions = <<>>
    /\ currentSessionId = NULL
    /\ sessionCardsStudied = 0
    /\ sessionCardsCorrect = 0
    /\ sessionTotalTimeMs = 0
    /\ calls = <<>>
    /\ returned = NothingReturned
    /\ view = NoView

StartScopedSession ==
    \E sc \in Scopes : startStudySession(sc[1], sc[2], TRUE, TRUE, TRUE, TRUE)

NextQueue ==
    \/ Tick
    \/ StartScopedSession
    \/ EndSession

SpecQueue == InitQueue /\ [][NextQueue]_vars

----------------------------------------------------------------------------
(* Queue assembly against storage that may fail the session insert and any of
   the three tier queries, on the pools and scopes of SpecQueue. *)

StartFaultySession ==
    \E sc \in Scopes, okInsert \in BOOLEAN, ok1 \in BOOLEAN, ok2 \in BOOLEAN, ok3 \in BOOLEAN :
        startStudySession(sc[1], sc[2], okInsert, ok1, ok2, ok3)

NextQueueFault ==
    \/ Tick
    \/ StartFaultySession
    \/ EndSession

SpecQueueFault == InitQueue /\ [][NextQueueFault]_vars

----------------------------------------------------------------------------
(* gradeCard against storage that may fail any request, called with any number
   as the grade and with ids of cards that are not stored (a queue shown before
   the card was deleted), on a stored card whose card_state may be a value the
   scheduler does not know (the table is created IF NOT EXISTS: a table made
   before the CHECK on card_state was written keeps whatever was stored).  The
   page makes one request at a time. *)

\* A card_state outside the four the scheduler knows.
CorruptState == "graduated"

\* The grades gradeCard is called with: the four of the grade buttons, and one
\* below and one above them.
AnyGrade == (0 - 1) .. 4

\* gradeCard is called at most MaxFaultCalls times against failing storage
MaxFaultCalls == 1

InitFault ==
    /\ now = 0
    /\ cards \in {[id \in {1} |-> SchedRow(state, step)] :
                    state \in CardStates \cup {CorruptState}, step \in 0 .. 1}
    /\ review_history = <<>>
    /\ study_sessions = <<>>
    /\ currentSessionId = NULL
    /\ sessionCardsStudied = 0
    /\ sessionCardsCorrect = 0
    /\ sessionTotalTimeMs = 0
    /\ calls = <<>>
    /\ returned = NothingReturned
    /\ view = NoView

CallGradeFault ==
    /\ Quiet
    /\ Len(calls) < MaxFaultCalls
    /\ \E id \in CardIds, g \in AnyGrade, t \in TimesTaken : gradeCardCall(id, g, t, FALSE)

StepGradeFault ==
    \E k \in DOMAIN calls, ok \in BOOLEAN :
        \/ gradeCardSelect(k, ok)
        \/ gradeCardUpdate(k, ok)
        \/ gradeCardLapse(k, ok)
        \/ gradeCardReview(k, ok)
        \/ gradeCardInsert(k, ok)
        \/ gradeCardSession(k, ok)
        \/ gradeCardReturn(k)

NextFault ==
    \/ StartSession
    \/ CallGradeFault
    \/ StepGradeFault
    \/ EndSession

SpecFault == InitFault /\ [][NextFault]_vars

----------------------------------------------------------------------------
(* Grade requests that overlap: handleGrade does not wait for the call before it
   (a grade key pressed twice, a click during the request), so a second gradeCard
   may start at any await of the first.  Storage answers every request; the
   activations are kept. *)

\* gradeCard is called at most MaxOverlap times
MaxOverlap == 2

InitOverlap ==
    /\ now = 0
    /\ cards \in {[id \in {1} |-> SchedRow(state, step)] :
                    state \in CardStates, step \in 0 .. 1}
    /\ review_history = <<>>
    /\ study_sessions = <<>>
    /\ currentSessionId = NULL
    /\ sessionCardsStudied = 0
    /\ sessionCardsCorrect = 0
    /\ sessionTotalTimeMs = 0
    /\ calls = <<>>
    /\ returned = NothingReturned
    /\ view = NoView

CallGradeOverlap ==
    /\ Len(calls) < MaxOverlap
    /\ \E id \in DOMAIN cards, g \in Grades, t \in TimesTaken : gradeCardCall(id, g, t, TRUE)

StepGradeOverlap ==
    \E k \in DOMAIN calls :
        \/ gradeCardSelect(k, TRUE)
        \/ gradeCardUpdate(k, TRUE)
        \/ gradeCardLapse(k, TRUE)
        \/ gradeCardReview(k, TRUE)
        \/ gradeCardInsert(k, TRUE)
        \/ gradeCardSession(k, TRUE)

NextOverlap ==
    \/ StartSession
    \/ CallGradeOverlap
    \/ StepGradeOverlap

SpecOverlap == InitOverlap /\ [][NextOverlap]_vars

----------------------------------------------------------------------------
(* The library view beside the study view: cards are graded, one request at a
   time and storage answering every request, and between gradings the learner
   suspends, reschedules, deletes and merges cards in the library. *)

MaxLibraryGrades == 1

\* The choices of the Reschedule menu that the model draws from (1d, 1w).
RescheduleDays == {1, 7}

CallGradeLibrary ==
    /\ Quiet
    /\ Len(calls) < MaxLibraryGrades
    /\ \E id \in DOMAIN cards, g \in Grades, t \in TimesTaken : gradeCardCall(id, g, t, FALSE)

\* handleSuspend: unsuspendCard for a suspended card, suspendCard otherwise.
Suspend ==
    /\ Quiet
    /\ \E id \in DOMAIN cards :
          IF cards[id].is_suspended THEN unsuspendCard(id, TRUE) ELSE suspendCard(id, TRUE)

Reschedule ==
    /\ Quiet
    /\ \E id \in DOMAIN cards, days \in RescheduleDays : rescheduleCard(id, days, TRUE)

Delete ==
    /\ Quiet
    /\ \E id \in DOMAIN cards : deleteCard(id, TRUE)

\* handleMerge: the selected cards, in the order they were selected.
Merge ==
    /\ Quiet
    /\ \E a, b \in DOMAIN cards : a # b /\ mergeCards(<<a, b>>, {})

NextLibrary ==
    \/ StartSession
    \/ CallGradeLibrary
    \/ StepGrade
    \/ EndSession
    \/ Suspend
    \/ Reschedule
    \/ Delete
    \/ Merge

SpecLibrary == Init /\ [][NextLibrary]_vars

----------------------------------------------------------------------------
(* The scheduler on a card from its creation: one card just imported is graded
   again and again, one request at a time and storage answering every request.
   Every sequence of MaxFreshGrades grades is taken, and the run of Good grades
   alone is followed for MaxGoodRun grades and one grade more.  Call records are
   kept as in SpecSched. *)

MaxFreshGrades == 5

MaxGoodRun == 8

InitFresh ==
    /\ now = 0
    /\ cards = [id \in {1} |-> NewCardRow(1)]
    /\ review_history = <<>>
    /\ study_sessions = <<>>
    /\ currentSessionId = NULL
    /\ sessionCardsStudied = 0
    /\ sessionCardsCorrect = 0
    /\ sessionTotalTimeMs = 0
    /\ calls = <<>>
    /\ returned = NothingReturned
    /\ view = NoView

\* Every grade so far was Good.
GoodRun == \A k \in DOMAIN calls : calls[k].grade = 2

CallGradeFresh ==
    \E g \in Grades, t \in TimesTaken :
        /\ \/ Len(calls) < MaxFreshGrades
           \/ GoodRun /\ Len(calls) < MaxGoodRun /\ g = 2
           \/ GoodRun /\ Len(calls) = MaxGoodRun
        /\ gradeCardCall(1, g, t, FALSE)

NextFresh ==
    \/ CallGradeFresh
    \/ StepGradeSched

SpecFresh == InitFresh /\ [][NextFresh]_vars

----------------------------------------------------------------------------
(* The study view: the learner picks a scope, grades the card shown with the
   buttons or the keys, as often and as fast as the view lets them, and goes
   back to the picker from the complete and the empty screen.  Storage answers
   every request.  A session is started only when the view has taken every
   outcome and run every timer of the one before. *)

MaxViewGrades == 2

\* Nothing of handleGrade is pending: every call has ended and has been taken, and
\* no timer is left.
ViewSettled ==
    /\ \A k \in DOMAIN calls : k \in view.handled
    /\ view.timers = <<>>

\* The start of a session has returned and the view has not taken it yet.
StartPending == returned.session_id # NULL /\ returned.session_id # view.session

ViewStart ==
    /\ Screen = "picker"
    /\ ~StartPending
    /\ ViewSettled
    /\ startStudySession(NULL, NULL, TRUE, TRUE, TRUE, TRUE)

ViewStartTaken == startSessionTaken

ViewBack == ~StartPending /\ backToPicker

ViewGrade ==
    /\ Len(calls) < MaxViewGrades
    /\ ~StartPending
    /\ \E g \in Grades, t \in TimesTaken : handleGrade(g, t)

ViewGradeTaken == \E k \in DOMAIN calls : handleGradeTaken(k)

ViewAdvance == advance

NextView ==
    \/ ViewStart
    \/ ViewStartTaken
    \/ ViewBack
    \/ ViewGrade
    \/ StepGradeOverlap
    \/ ViewGradeTaken
    \/ ViewAdvance

SpecView == Init /\ [][NextView]_vars

----------------------------------------------------------------------------
(* Properties of the scheduler, read off the activations of gradeCard: card is
   the row as the call read it, at the time it was graded at, result what
   processGrade returned for it. *)

\* processGrade has run in call k.
Computed(k) == calls[k].pc \in {"update", "lapse", "review", "insert", "session", "done"}

\* The update of call k has been written to the card.
Written(k) == calls[k].pc \in {"lapse", "review", "insert", "session", "done"}

\* Call k reads a card in the learning phase / in the review phase.
InLearning(k) == calls[k].card.card_state \in {"new", "learning"}

InReview(k) == calls[k].card.card_state \in {"review", "relearning"}

Minutes(n) == n

Days(n) == n * 1440

\* The review ladder of the specification, for steps 0 to 7.
Ladder(step) ==
    CASE step = 0 -> 0 [] step = 1 -> 1 [] step = 2 -> 4 [] step = 3 -> 10
      [] step = 4 -> 25 [] step = 5 -> 60 [] step = 6 -> 150 [] step = 7 -> 365

\* Call k schedules its card in the given state and step, with the given interval,
\* due the given number of minutes after the grading; and the card is stored so
\* once the call has written it, as long as no later call has.
Schedules(k, state, step, interval, delay) ==
    /\ calls[k].result.card_state = state
    /\ calls[k].result.step_index = step
    /\ calls[k].result.interval_days = interval
    /\ calls[k].result.due_date = calls[k].at + delay
    /\ (Written(k) /\ k = Len(calls)) =>
          LET row == cards[calls[k].card_id]
          IN  /\ row.card_state = state
              /\ row.step_index = step
              /\ row.interval_days = interval
              /\ row.due_date = calls[k].at + delay

\* Call k grades a fresh card.
Fresh(k) == calls[k].card.card_state = "new" /\ calls[k].card.step_index = 0

\* C1: Good on a fresh card gives learning, step 1, interval 0, due in 10 minutes;
\* a second Good in a row gives review, step 1, interval 1, due in 1 day; and Good
\* on a new or learning card at step s goes to learning step s+1 when s+1 < 2 and
\* otherwise graduates to review at step 1.
C1_GoodInLearning ==
    \A k \in DOMAIN calls :
        (Computed(k) /\ InLearning(k) /\ calls[k].grade = 2) =>
            /\ Fresh(k) => Schedules(k, "learning", 1, 0, Minutes(10))
            /\ (/\ k > 1
                /\ Fresh(k - 1)
                /\ calls[k - 1].grade = 2
                /\ calls[k - 1].card_id = calls[k].card_id)
               => Schedules(k, "review", 1, 1, Days(1))
            /\ IF calls[k].card.step_index + 1 < 2
               THEN /\ calls[k].result.card_state = "learning"
                    /\ calls[k].result.step_index = calls[k].card.step_index + 1
               ELSE /\ calls[k].result.card_state = "review"
                    /\ calls[k].result.step_index = 1

\* A fresh card has been graded Good twice in a row, and the second grade is
\* stored.
C1_Witness ==
    \E k \in DOMAIN calls :
        /\ k > 1
        /\ Fresh(k - 1)
        /\ calls[k - 1].grade = 2
        /\ calls[k].grade = 2
        /\ calls[k].pc = "done"
        /\ cards[calls[k].card_id].card_state = "review"

\* C2: Easy on a card in state new or learning, at any step, graduates it at once:
\* review, step 2, interval 4, due in 4 days.
C2_EasyInLearning ==
    \A k \in DOMAIN calls :
        (Computed(k) /\ InLearning(k) /\ calls[k].grade = 3) =>
            Schedules(k, "review", 2, 4, Days(4))

\* Easy has been applied to a card that a Good had moved to learning step 1.
C2_Witness ==
    \E k \in DOMAIN calls :
        /\ k > 1
        /\ calls[k - 1].grade = 2
        /\ calls[k].pc = "done" /\ calls[k].grade = 3
        /\ calls[k].card.card_state = "learning" /\ calls[k].card.step_index = 1

\* C3: Again on a card in state review or relearning, at any step, gives
\* relearning (never learning), step 0, interval 0, due in 10 minutes.
C3_AgainInReview ==
    \A k \in DOMAIN calls :
        (Computed(k) /\ InReview(k) /\ calls[k].grade = 0) =>
            Schedules(k, "relearning", 0, 0, Minutes(10))

\* Again has been applied to a review card above step 0 and to a relearning card.
C3_Witness ==
    /\ \E k \in DOMAIN calls :
          /\ calls[k].pc = "done" /\ calls[k].grade = 0
          /\ calls[k].card.card_state = "review" /\ calls[k].card.step_index > 0
    /\ \E k \in DOMAIN calls :
          /\ calls[k].pc = "done" /\ calls[k].grade = 0
          /\ calls[k].card.card_state = "relearning"

\* What the latest call has added to its card's lapse_count so far.
LapseAdded(k) == cards[calls[k].card_id].lapse_count - calls[k].before.lapse_count

C5_GoodEasyInReview ==
    \A k \in DOMAIN calls :
        (Computed(k) /\ InReview(k) /\ calls[k].grade \in {2, 3}) =>
            LET step == calls[k].card.step_index
                up   == IF calls[k].grade = 2 THEN 1 ELSE 2
                next == IF step + up < 7 THEN step + up ELSE 7
            IN  /\ Schedules(k, "review", next, Ladder(next), Days(Ladder(next)))
                /\ step = 7 => Schedules(k, "review", 7, 365, Days(365))

\* Good and Easy have been applied at the top step, and Easy one below it.
C5_Witness ==
    /\ \E k \in DOMAIN calls :
          /\ calls[k].pc = "done" /\ calls[k].grade = 2 /\ InReview(k)
          /\ calls[k].card.step_index = 7
    /\ \E k \in DOMAIN calls :
          /\ calls[k].pc = "done" /\ calls[k].grade = 3 /\ InReview(k)
          /\ calls[k].card.step_index = 7
    /\ \E k \in DOMAIN calls :
          /\ calls[k].pc = "done" /\ calls[k].grade = 3 /\ InReview(k)
          /\ calls[k].card.step_index = 6

\* C6: Hard on a review or relearning card leaves step_index as it is, sets state
\* review and interval_days to the ladder's value at min(step, 7), and makes the
\* card due max(interval_days, 1) days after the grading: at step 0 the interval
\* stored is 0 and the card is due in 1 day.
C6_HardInReview ==
    \A k \in DOMAIN calls :
        (Computed(k) /\ InReview(k) /\ calls[k].grade = 1) =>
            LET step     == calls[k].card.step_index
                interval == Ladder(IF step < 7 THEN step ELSE 7)
            IN  /\ Schedules(k, "review", step, interval,
                             Days(IF interval > 1 THEN interval ELSE 1))
                /\ calls[k].result.due_date >= calls[k].at + Days(1)
                /\ step = 0 => Schedules(k, "review", 0, 0, Days(1))

\* Hard has been applied to a card that had just lapsed to step 0: the interval
\* stored is 0 and the card is due a day later.
C6_Witness ==
    \E k \in DOMAIN calls :
        /\ k > 1
        /\ calls[k - 1].grade = 0
        /\ calls[k].pc = "done" /\ calls[k].grade = 1
        /\ calls[k].card.card_state = "relearning" /\ calls[k].card.step_index = 0
        /\ cards[calls[k].card_id].interval_days = 0
        /\ cards[calls[k].card_id].due_date = calls[k].at + Days(1)

\* C7: Again on a card in state new or learning, at any step, gives learning (not
\* relearning), step 0, interval 0, due in 1 minute.
C7_AgainInLearning ==
    \A k \in DOMAIN calls :
        (Computed(k) /\ InLearning(k) /\ calls[k].grade = 0) =>
            Schedules(k, "learning", 0, 0, Minutes(1))

\* Again has been applied to a new card and to a learning card at step 1.
C7_Witness ==
    /\ \E k \in DOMAIN calls :
          /\ calls[k].pc = "done" /\ calls[k].grade = 0
          /\ calls[k].card.card_state = "new"
    /\ \E k \in DOMAIN calls :
          /\ calls[k].pc = "done" /\ calls[k].grade = 0
          /\ calls[k].card.card_state = "learning" /\ calls[k].card.step_index = 1

\* C8: Hard on a card in state new or learning gives learning with step_index as
\* it was and interval 0, due in 1 minute at step 0 and in 10 minutes at step 1 or
\* above: minutes, never a day.
C8_HardInLearning ==
    \A k \in DOMAIN calls :
        (Computed(k) /\ InLearning(k) /\ calls[k].grade = 1) =>
            LET step == calls[k].card.step_index
            IN  /\ Schedules(k, "learning", step, 0,
                             IF step = 0 THEN Minutes(1) ELSE Minutes(10))
                /\ calls[k].result.due_date < calls[k].at + Days(1)

\* Hard has been applied at step 0 and at step 1.
C8_Witness ==
    /\ \E k \in DOMAIN calls :
          /\ calls[k].pc = "done" /\ calls[k].grade = 1 /\ InLearning(k)
          /\ calls[k].card.step_index = 0
    /\ \E k \in DOMAIN calls :
          /\ calls[k].pc = "done" /\ calls[k].grade = 1 /\ InLearning(k)
          /\ calls[k].card.step_index = 1

----------------------------------------------------------------------------
(* Properties of queue assembly, read off what startStudySession returned.  No
   action of SpecQueue changes a card, so the pool the queue was drawn from is
   the table as it stands, and returned.at the time of the call. *)

\* The queue of the last call.
Queue == returned.cards

\* The card is in the scope the session was started with.
InScope(id) ==
    IF returned.topicId # NULL THEN cards[id].topic_id = returned.topicId
    ELSE IF returned.sourceId # NULL THEN SourceOf(cards[id].topic_id) = returned.sourceId
    ELSE TRUE

\* The cards of the given states that the session may be shown: in scope, not
\* suspended and, but for new cards, due.
Eligible(states) ==
    {id \in DOMAIN cards :
        /\ cards[id].card_state \in states
        /\ ~cards[id].is_suspended
        /\ InScope(id)
        /\ cards[id].card_state # "new" =>
              (cards[id].due_date # NoDate /\ cards[id].due_date <= returned.at)}

\* How many cards of the given states the queue holds.
Queued(states) ==
    Cardinality({i \in DOMAIN Queue : Queue[i].card_state \in states})

\* C9: the queue never holds more than 20 cards and is filled tier by tier: with
\* L learning or relearning cards due, R review cards due and N new cards
\* eligible it holds min(L, 20) of the first, min(R, 20 - min(L, 20)) of the
\* second and min(N, what is left) of the third; 3, 5 and 50 give 3 + 5 + 12.
C9_QueueBudget ==
    returned.session_id # NULL =>
        LET L  == Cardinality(Eligible({"learning", "relearning"}))
            R  == Cardinality(Eligible({"review"}))
            N  == Cardinality(Eligible({"new"}))
            nl == Queued({"learning", "relearning"})
            nr == Queued({"review"})
            nn == Queued({"new"})
        IN  /\ Len(Queue) <= 20
            /\ nl = Min(L, 20)
            /\ nr = Min(R, 20 - nl)
            /\ nn = Min(N, 20 - nl - nr)
            /\ (L = 3 /\ R = 5 /\ N = 50) => (nl = 3 /\ nr = 5 /\ nn = 12)

\* The tier of a queued card.
Tier(card) ==
    IF card.card_state \in {"learning", "relearning"} THEN 1
    ELSE IF card.card_state = "review" THEN 2
    ELSE 3

\* C10: in every queue returned all learning and relearning cards come before all
\* review cards, which come before all new cards.
C10_TierOrder ==
    \A i, j \in DOMAIN Queue : i < j => Tier(Queue[i]) <= Tier(Queue[j])

\* A queue with cards of all three tiers has been returned.
C10_Witness ==
    /\ returned.session_id # NULL
    /\ \E i, j, k \in DOMAIN Queue :
          /\ Queue[i].card_state = "relearning"
          /\ Queue[j].card_state = "review"
          /\ Queue[k].card_state = "new"

\* C11: every card of a returned queue is eligible: it is not suspended, and it is
\* a learning, relearning or review card due at the time of the call, or a new card;
\* no suspended card and no learning, relearning or review card due later is
\* returned.
C11_QueueEligible ==
    returned.session_id # NULL =>
        \A i \in DOMAIN Queue :
            LET row == cards[Queue[i].id]
            IN  /\ ~row.is_suspended
                /\ ~Queue[i].is_suspended
                /\ \/ /\ row.card_state \in {"learning", "relearning", "review"}
                      /\ row.due_date # NoDate
                      /\ row.due_date <= returned.at
                   \/ row.card_state = "new"

\* The queued cards.
QueuedIds == {Queue[i].id : i \in DOMAIN Queue}

\* A queue with room left has been returned from a pool that holds, in the
\* session's scope, a suspended card that is due, a learning card due later and a
\* review card due later.
C11_Witness ==
    /\ returned.session_id # NULL
    /\ Queue # <<>>
    /\ Len(Queue) < 20
    /\ \E a, b, c \in DOMAIN cards \ QueuedIds :
          /\ InScope(a) /\ InScope(b) /\ InScope(c)
          /\ cards[a].is_suspended /\ cards[a].card_state = "review"
          /\ cards[a].due_date <= returned.at
          /\ ~cards[b].is_suspended /\ cards[b].card_state = "learning"
          /\ cards[b].due_date > returned.at
          /\ ~cards[c].is_suspended /\ cards[c].card_state = "review"
          /\ cards[c].due_date > returned.at

\* C12: every card of a returned queue is in the session's scope: of the topic
\* when the session has a topic scope, of a topic of the source when it has a
\* source scope.
C12_QueueInScope ==
    returned.session_id # NULL => \A i \in DOMAIN Queue : InScope(Queue[i].id)

----------------------------------------------------------------------------
(* Properties of gradeCard as a whole, read off an activation while the caller has
   not yet taken its outcome.  The page makes one request at a time, so whatever
   differs from what the call remembers in before is the call's own doing. *)

\* Call k has been made and its outcome not yet taken.
Live(k) == calls[k].pc # "returned"

\* Call k has ended: it has returned a schedule or thrown.
Ended(k) == calls[k].pc \in {"done", "failed"}

\* Call k has so far changed no card: scheduling columns, review_count and
\* lapse_count are what they were.
CardsUntouched(k) == cards = calls[k].before.cards

\* Call k has so far added nothing to the review ledger.
LedgerUntouched(k) == Len(review_history) = calls[k].before.history

\* Call k has so far changed neither the counters of the module nor a stored
\* session row.
SessionUntouched(k) ==
    /\ sessionCardsStudied = calls[k].before.studied
    /\ sessionCardsCorrect = calls[k].before.correct
    /\ sessionTotalTimeMs = calls[k].before.total
    /\ study_sessions = calls[k].before.sessions

\* Call k has thrown and has changed nothing.
Rejected(k) ==
    /\ calls[k].pc = "failed"
    /\ calls[k].error # "none"
    /\ CardsUntouched(k)
    /\ LedgerUntouched(k)
    /\ SessionUntouched(k)

\* C13: a call of gradeCard with a grade outside {0,1,2,3} never gets past its
\* read: it changes no card (scheduling columns, review_count, lapse_count), adds
\* nothing to the ledger, leaves the session counters as they were, and ends
\* rejected.
C13_GradeOutOfRange ==
    \A k \in DOMAIN calls :
        (Live(k) /\ calls[k].grade \notin {0, 1, 2, 3}) =>
            /\ CardsUntouched(k)
            /\ LedgerUntouched(k)
            /\ SessionUntouched(k)
            /\ Ended(k) => Rejected(k)

\* The update of call k has been written to its card, which is stored.
CardAdvanced(k) == Written(k) /\ calls[k].card_id \in DOMAIN cards

\* Call k has added its entry to the review ledger.
EntryAdded(k) ==
    /\ Len(review_history) = calls[k].before.history + 1
    /\ review_history[Len(review_history)].card_id = calls[k].card_id

\* C16: when a call of gradeCard with one of the four grades, in which storage
\* failed a request, has ended, the card is advanced and the ledger holds the
\* call's entry, or neither is the case.
C16_SingleUnit ==
    \A k \in DOMAIN calls :
        (Ended(k) /\ calls[k].grade \in Grades /\ calls[k].faults # {}) =>
            /\ CardAdvanced(k) <=> EntryAdded(k)
            /\ ~CardAdvanced(k) => (CardsUntouched(k) /\ LedgerUntouched(k))

\* C17: when storage fails the update of the card, the call throws and the card
\* keeps the scheduling columns the call read; review_count, lapse_count, the
\* ledger, the counters of the module and the session rows are as before the call.
C17_UpdateFails ==
    \A k \in DOMAIN calls :
        (Live(k) /\ "update" \in calls[k].faults) =>
            /\ Rejected(k)
            /\ SelectedColumns(cards[calls[k].card_id]) = calls[k].card

\* Storage has failed the update of a graded card while a session is current.
C17_Witness ==
    \E k \in DOMAIN calls :
        /\ calls[k].pc = "failed"
        /\ "update" \in calls[k].faults
        /\ calls[k].grade \in Grades
        /\ currentSessionId # NULL

\* The card of call k is stored with a card_state outside the four.
UnknownState(k) ==
    /\ calls[k].card_id \in DOMAIN calls[k].before.cards
    /\ calls[k].before.cards[calls[k].card_id].card_state \notin
          {"new", "learning", "review", "relearning"}

\* C18: a call of gradeCard on a card stored with a card_state outside new,
\* learning, review, relearning throws once it has read the card, with the unknown
\* card state error when storage answered the read; the card keeps the state it
\* had, and cards, ledger and session counters are as before the call.
C18_UnknownState ==
    \A k \in DOMAIN calls :
        (Live(k) /\ calls[k].pc # "select" /\ UnknownState(k)) =>
            /\ Rejected(k)
            /\ calls[k].faults = {} => calls[k].error = "Unknown card state"
            /\ cards[calls[k].card_id].card_state = CorruptState

\* A card stored with an unknown card_state has been graded, storage answering,
\* while a session is current.
C18_Witness ==
    \E k \in DOMAIN calls :
        /\ UnknownState(k)
        /\ calls[k].pc = "failed"
        /\ calls[k].faults = {}
        /\ calls[k].grade \in Grades
        /\ currentSessionId # NULL

\* C19: a call of gradeCard with the id of a card that is not stored throws Card
\* not found once the read is answered, and changes no card, adds nothing to the
\* ledger and touches neither the counters of the module nor a session row.
C19_CardNotFound ==
    \A k \in DOMAIN calls :
        (/\ Live(k)
         /\ calls[k].pc # "select"
         /\ calls[k].card_id \notin DOMAIN calls[k].before.cards)
        => (Rejected(k) /\ calls[k].error = "Card not found")

\* A card that is not stored has been graded with one of the four grades, storage
\* answering, while a session is current.
C19_Witness ==
    \E k \in DOMAIN calls :
        /\ calls[k].card_id \notin DOMAIN cards
        /\ calls[k].pc = "failed"
        /\ calls[k].faults = {}
        /\ calls[k].grade \in Grades
        /\ currentSessionId # NULL

C14_AtMostOneApplies ==
    \A k \in DOMAIN calls : \A j \in calls[k].racing :
        /\ ~(Written(j) /\ Written(k))
        /\ cards[calls[k].card_id].review_count <= calls[j].before.review_count + 1
        /\ cards[calls[k].card_id].lapse_count <= calls[j].before.lapse_count + 1
        /\ sessionCardsStudied <= calls[j].before.studied + 1

\* C15: a call of gradeCard that repeats the card and the grade of the call
\* before it, which has returned and has changed the stored card, is rejected
\* once it has read the card: it throws and changes neither the card and its
\* counters, nor the ledger, nor the session counters.
C15_ReplayRejected ==
    \A k \in DOMAIN calls :
        (/\ k > 1
         /\ calls[k - 1].pc = "done"
         /\ calls[k].card_id = calls[k - 1].card_id
         /\ calls[k].grade = calls[k - 1].grade
         /\ calls[k].before.cards # calls[k - 1].before.cards
         /\ calls[k].pc # "select")
        => Rejected(k)

\* C21: a call of gradeCard that returns a schedule has added exactly one entry
\* for its card to the review ledger and exactly 1 to the card's review_count
\* (so that review_count keeps counting the card's entries).
C21_OneEntryOneReview ==
    \A k \in DOMAIN calls :
        calls[k].pc = "done" =>
            /\ EntryAdded(k)
            /\ cards[calls[k].card_id].review_count
                 = calls[k].before.cards[calls[k].card_id].review_count + 1

----------------------------------------------------------------------------
(* Properties of study sessions *)

ActiveSessions == {i \in DOMAIN study_sessions : study_sessions[i].status = "active"}

\* C22: at most one row of study_sessions has status active at a time (a session
\* started while another is active finds the other one marked completed).
C22_OneActiveSession == Cardinality(ActiveSessions) <= 1

Closed == {"completed", "abandoned"}

\* The status of row i changes in this step.
StatusMoves(i) ==
    /\ i \in DOMAIN study_sessions'
    /\ study_sessions'[i].status # study_sessions[i].status

GradedInSession(k) ==
    /\ calls[k].pc = "done"
    /\ calls[k].session_id \in DOMAIN calls[k].before.sessions
    /\ calls[k].before.sessions[calls[k].session_id].status = "active"

\* C24: a call of gradeCard that returns a schedule while a session is active has
\* added exactly 1 to the session's cards_studied, 1 to its cards_correct if and
\* only if the grade is 2 or more, and the time taken to its total_time_ms.
C24_SessionCounters ==
    \A k \in DOMAIN calls :
        GradedInSession(k) =>
            LET was == calls[k].before.sessions[calls[k].session_id]
                is  == study_sessions[calls[k].session_id]
            IN  /\ is.cards_studied = was.cards_studied + 1
                /\ is.cards_correct =
                       was.cards_correct + (IF calls[k].grade >= 2 THEN 1 ELSE 0)
                /\ is.total_time_ms = was.total_time_ms + calls[k].timeTakenMs

----------------------------------------------------------------------------
(* Properties of the fields the scheduler carries *)

\* Values of ease_factor other than the column default, in hundredths.
EaseValues == {130, DefaultEase, 310}

\* C25: the schedule computed for a card has the ease_factor that was read from
\* it, whatever the state and the grade; so every stored card keeps the
\* ease_factor it was created with and every ledger entry has new_ease equal to
\* previous_ease.
C25_EasePassesThrough ==
    /\ \A k \in DOMAIN calls :
          Computed(k) => calls[k].result.ease_factor = calls[k].card.ease_factor
    /\ calls = <<>> =>
          \A state \in CardStates, step \in 0 .. MaxStepIn, g \in Grades, e \in EaseValues :
          processGrade([card_state |-> state, ease_factor |-> e, step_index |-> step,
                        interval_days |-> 0], g, now).ease_factor = e
    /\ \A id \in DOMAIN cards : cards[id].ease_factor = DefaultEase
    /\ \A i \in DOMAIN review_history :
          review_history[i].new_ease = review_history[i].previous_ease

\* A card has been graded three times, in learning and in review, and every grade
\* has been written and entered in the ledger.
C25_Witness ==
    /\ Len(review_history) = 3
    /\ \E i, j \in DOMAIN review_history :
          /\ review_history[i].previous_interval = 0
          /\ review_history[j].previous_interval > 0
          /\ review_history[j].grade = 2
          /\ review_history[j].new_ease = DefaultEase

----------------------------------------------------------------------------
(* Properties of startStudySession as a whole *)

\* startStudySession has run in this step: a session has been added or an outcome
\* returned.
SessionStarted ==
    \/ Len(study_sessions') > Len(study_sessions)
    \/ returned' # returned

\* C26: a step of startStudySession leaves the cards table as it was: no card is
\* added or removed and every card keeps its state, step_index, interval_days,
\* due_date, counters and is_suspended.
C26_AssemblyReadsOnly ==
    [][SessionStarted => cards' = cards]_vars

\* A queue has been returned that holds cards of all three tiers, and none of the
\* new cards in it has left the state new.
C26_Witness ==
    /\ returned.session_id # NULL
    /\ Queued({"learning", "relearning"}) > 0
    /\ Queued({"review"}) > 0
    /\ Queued({"new"}) > 0
    /\ \A i \in DOMAIN Queue : cards[Queue[i].id].card_state = Queue[i].card_state

\* No card is eligible for the session that was started.
NothingEligible == Eligible(CardStates) = {}

\* C27: a session started when no card is eligible in its scope returns without
\* an error, with an empty queue and total_available 0.
C27_EmptyPool ==
    (returned.session_id # NULL /\ NothingEligible) =>
        /\ ~returned.error
        /\ returned.cards = <<>>
        /\ returned.total_available = 0

\* C30: the schedule computed by a grading at time t is due in 1 or in 10 minutes
\* when its state is learning or relearning, and max(interval_days, 1) days
\* after t, so at least one day after t, when its state is review; the card is
\* stored with that due date once the call has written it.
C30_DueDateScale ==
    \A k \in DOMAIN calls :
        Computed(k) =>
            LET res == calls[k].result
                t   == calls[k].at
            IN  /\ res.card_state \in {"learning", "relearning", "review"}
                /\ res.card_state \in {"learning", "relearning"} =>
                      res.due_date \in {t + Minutes(1), t + Minutes(10)}
                /\ res.card_state = "review" =>
                      /\ res.due_date = t + Days(Max(res.interval_days, 1))
                      /\ res.due_date >= t + Days(1)
                /\ (Written(k) /\ k = Len(calls)) =>
                      cards[calls[k].card_id].due_date = res.due_date

\* One card has been sent to relearning, sent back to review with interval 0 by a
\* Hard, and graded once more: schedules in minutes, the one-day floor and a
\* schedule of several days have all been computed.
C30_Witness ==
    /\ Len(calls) = 3
    /\ \A k \in DOMAIN calls : Written(k)
    /\ calls[1].result.card_state = "relearning"
    /\ calls[1].result.due_date = calls[1].at + Minutes(10)
    /\ calls[2].result.card_state = "review"
    /\ calls[2].result.interval_days = 0
    /\ calls[3].result.card_state = "review"
    /\ calls[3].result.interval_days > 1

----------------------------------------------------------------------------
(* Properties of the tables under the card operations of the library view *)

\* C28: an entry of the review ledger, once created, stays in the ledger as it
\* was created, whatever operation runs (deleting and merging cards included).
C28_LedgerAppendOnly ==
    [][\A i \in DOMAIN review_history :
          /\ i \in DOMAIN review_history'
          /\ review_history'[i] = review_history[i]]_vars

\* C29: a stored card is in state new if and only if its due_date is unset and
\* its review_count is 0.
C29_NewIffNeverGraded ==
    \A id \in DOMAIN cards :
        cards[id].card_state = "new" <=>
            (cards[id].due_date = NoDate /\ cards[id].review_count = 0)

----------------------------------------------------------------------------
(* Properties of the ledger entry of a grading *)

\* The insert of call k has been served.
Entered(k) == calls[k].pc \in {"session", "done"}

\* C33: the ledger entry added by a grading has the card's interval_days and
\* ease_factor as they were stored when the call was made as previous_interval
\* and previous_ease, the values the call writes to the card as new_interval and
\* new_ease, and the grade submitted as grade.
C33_EntryRecordsTransition ==
    \A k \in DOMAIN calls :
        Entered(k) =>
            /\ calls[k].before.history + 1 \in DOMAIN review_history
            /\ LET row == review_history[calls[k].before.history + 1]
                   was == calls[k].before.cards[calls[k].card_id]
               IN  /\ row.card_id = calls[k].card_id
                   /\ row.grade = calls[k].grade
                   /\ row.previous_interval = was.interval_days
                   /\ row.previous_ease = was.ease_factor
                   /\ row.new_interval = calls[k].result.interval_days
                   /\ row.new_ease = calls[k].result.ease_factor
                   /\ k = Len(calls) =>
                         /\ row.new_interval = cards[calls[k].card_id].interval_days
                         /\ row.new_ease = cards[calls[k].card_id].ease_factor

\* A grading has been entered whose interval before and interval after differ
\* and are both positive.
C33_Witness ==
    \E k \in DOMAIN calls :
        /\ Entered(k)
        /\ k = Len(calls)
        /\ calls[k].before.cards[calls[k].card_id].interval_days > 0
        /\ cards[calls[k].card_id].interval_days
             > calls[k].before.cards[calls[k].card_id].interval_days
        /\ review_history[Len(review_history)].grade = 3

----------------------------------------------------------------------------
(* Properties of a card graded from its creation on *)

\* The scheduling columns are within the ladder of the state.
OnLadder(row) ==
    /\ row.card_state = "new" => (row.step_index = 0 /\ row.interval_days = 0)
    /\ row.card_state = "learning" =>
          (row.step_index \in {0, 1} /\ row.interval_days = 0)
    /\ row.card_state = "relearning" =>
          (row.step_index = 0 /\ row.interval_days = 0)
    /\ row.card_state = "review" =>
          (row.step_index \in 0 .. 7 /\ row.interval_days = Ladder(row.step_index))

\* C34: a card created in state new at step 0 and graded any number of times
\* with grades 0 to 3 is, as stored and as every grading computes it, at step 0
\* or 1 with interval 0 in learning, at step 0 with interval 0 in relearning,
\* and at a step 0 to 7 with the interval of that step (0, 1, 4, 10, 25, 60,
\* 150, 365) in review.
C34_OnLadder ==
    /\ \A id \in DOMAIN cards : OnLadder(cards[id])
    /\ \A k \in DOMAIN calls : Computed(k) => OnLadder(calls[k].result)

\* A card at the top of the review ladder has been graded Easy and written, and
\* is still stored at step 7.
C34_Witness ==
    /\ \E k \in DOMAIN calls :
          /\ Written(k)
          /\ calls[k].card.card_state = "review"
          /\ calls[k].card.step_index = 7
          /\ calls[k].grade = 3
    /\ cards[1].step_index = 7

\* The first n grades of the card were Good.
FirstGood(n) == \A k \in 1 .. n : k \in DOMAIN calls /\ calls[k].grade = 2

\* Call k leaves its card in review at the top of the ladder.
AtTop(k) ==
    /\ calls[k].result.card_state = "review"
    /\ calls[k].result.step_index = 7
    /\ calls[k].result.interval_days = 365

\* C35: graded Hard, Good or Easy, a card in review or relearning never gets a
\* lower step_index; the eighth of eight Good grades in a row on a fresh card
\* leaves it in review at step 7 with interval 365, and from there every Hard,
\* Good or Easy leaves it at step 7 with interval 365.
C35_OnlyAgainLowers ==
    \A k \in DOMAIN calls :
        Computed(k) =>
            /\ (InReview(k) /\ calls[k].grade \in {1, 2, 3}) =>
                  calls[k].result.step_index >= calls[k].card.step_index
            /\ (k = 8 /\ FirstGood(8)) => AtTop(k)
            /\ (calls[k].card.card_state = "review" /\ calls[k].card.step_index = 7
                  /\ calls[k].grade \in {1, 2, 3}) => AtTop(k)
            /\ Written(k) /\ k = Len(calls) =>
                  cards[calls[k].card_id].step_index = calls[k].result.step_index

\* Eight Good grades in a row on a fresh card and then a Hard have been written.
C35_Witness ==
    /\ Len(calls) = 9
    /\ FirstGood(8)
    /\ calls[9].grade = 1
    /\ Written(9)
    /\ cards[1].step_index = 7
    /\ cards[1].interval_days = 365

----------------------------------------------------------------------------
(* Properties of the study view *)

\* The view has taken a session and nothing of it is pending.
ViewIdle == view.session # NULL /\ ~StartPending /\ ViewSettled

\* C31: a session whose queue is exhausted (the view shows the complete or the
\* empty screen, or the picker after one of them) with nothing pending has left
\* the status active.
C31_SessionClosed ==
    (ViewIdle /\ Screen \in {"complete", "empty", "picker"}) =>
        study_sessions[view.session].status # "active"

\* Calls j and k grade the same card as the same session presents it.
SamePresentation(j, k) ==
    /\ calls[j].card_id = calls[k].card_id
    /\ Len(calls[j].before.sessions) = Len(calls[k].before.sessions)

\* C37: no two gradeCard calls are made for the same presented card.
C37_GradedOnce ==
    \A j, k \in DOMAIN calls : j < k => ~SamePresentation(j, k)

\* The card at place i of the queue of the view has been graded by a call that
\* returned a schedule.
Graded(i) ==
    \E k \in DOMAIN calls :
        /\ calls[k].pc = "done"
        /\ calls[k].card_id = view.cards[i].id
        /\ Len(calls[k].before.sessions) = view.session

\* C38: while the view has a session, currentIndex is within the queue, every
\* card before currentIndex has been graded, the session is shown complete only
\* when every card of the queue has been graded, and endStudySession has been
\* called once then and not before.
C38_NoCardSkipped ==
    (view.session # NULL /\ ~StartPending) =>
        /\ (view.sessionActive /\ view.cards # <<>>) =>
              view.currentIndex < Len(view.cards)
        /\ \A i \in DOMAIN view.cards : i <= view.currentIndex => Graded(i)
        /\ view.sessionComplete => \A i \in DOMAIN view.cards : Graded(i)
        /\ view.ended = (IF view.sessionComplete THEN 1 ELSE 0)

\* The text of the button of a grade.
Preview(step, grade) ==
    CASE grade = 0 -> intervals(step).again
      [] grade = 1 -> intervals(step).hard
      [] grade = 2 -> intervals(step).good
      [] grade = 3 -> intervals(step).easy

\* The delay a text names, in minutes: Day 0 is the same day, in 10 minutes, and
\* Day n is n days on.
NamedDelay(text) ==
    CASE text.label = "Day 0"   -> Minutes(10)
      [] text.label = "Day 1"   -> Days(1)
      [] text.label = "Day 4"   -> Days(4)
      [] text.label = "Day 10"  -> Days(10)
      [] text.label = "Day 25"  -> Days(25)
      [] text.label = "Day 60"  -> Days(60)
      [] text.label = "Day 150" -> Days(150)
      [] text.label = "Day 365" -> Days(365)

\* The delay processGrade gives the stored card for the grade, in minutes.
AppliedDelay(id, grade) ==
    processGrade(SelectedColumns(cards[id]), grade, now).due_date - now

\* C40: while a card is shown for grading, the text of each of the four grade
\* buttons names the delay that processGrade gives that card for that grade.
C40_PreviewAgrees ==
    (Screen = "study" /\ CurrentCard.id \in DOMAIN cards) =>
        \A g \in Grades :
            NamedDelay(Preview(CurrentCard.step_index, g)) = AppliedDelay(CurrentCard.id, g)

----------------------------------------------------------------------------
(* Properties of the scheduling columns under every operation *)

\* The scheduling columns and the counters of a card.
Scheduling(row) ==
    <<row.card_state, row.step_index, row.interval_days, row.due_date,
      row.review_count, row.lapse_count>>

\* C32: a step that is not a step of gradeCard leaves the state, step_index,
\* interval_days, due_date, review_count and lapse_count of every card that
\* stays stored as they were, and no step lowers review_count or lapse_count.
C32_OnlyGradingSchedules ==
    [][\A id \in DOMAIN cards \cap DOMAIN cards' :
          /\ calls' = calls => Scheduling(cards'[id]) = Scheduling(cards[id])
          /\ cards'[id].review_count >= cards[id].review_count
          /\ cards'[id].lapse_count >= cards[id].lapse_count]_vars

----------------------------------------------------------------------------
(* Properties of queue assembly when tier queries fail *)

\* C36: a queue that holds a new card holds every learning, relearning and review
\* card that is eligible for the session (in scope, not suspended, due), whether
\* the tier queries succeeded or not.
C36_LowerTierLast ==
    (returned.session_id # NULL /\ Queued({"new"}) > 0) =>
        Eligible({"learning", "relearning", "review"}) \subseteq QueuedIds

----------------------------------------------------------------------------
(* Properties of the ledger against the session counters *)

\* The ledger entries of a session.
EntriesOf(sid) == {i \in DOMAIN review_history : review_history[i].session_id = sid}

\* C39: whenever no gradeCard call is in flight, every session's cards_studied
\* is the number of ledger entries of the session and its cards_correct the
\* number of those with grade 2 or more.
C39_LedgerMatchesSession ==
    NoCallInFlight =>
        \A sid \in DOMAIN study_sessions :
            /\ study_sessions[sid].cards_studied = Cardinality(EntriesOf(sid))
            /\ study_sessions[sid].cards_correct =
                  Cardinality({i \in EntriesOf(sid) : review_history[i].grade >= 2})

====
